---- MODULE Spec2Model ----
(***************************************************************************)
(* Model of run.py (macvim-download-stats): a single-shot batch job that   *)
(* queries the GitHub releases API and the Homebrew formula API and        *)
(* records what it saw in CSV files.  The job is run again and again by a  *)
(* scheduler; the files on disk are the state that survives between runs.  *)
(*                                                                         *)
(* Text (a Python str, a CSV cell) is a sequence of characters.  Digits    *)
(* are spelled out one by one, so that str(10) = <<"1","0">> differs from  *)
(* the integer 10; a word whose spelling plays no part (an asset name, a   *)
(* tag) is written as one symbol.  The empty string is <<>>.               *)
(*                                                                         *)
(* A file is [exists, lines]; lines is the sequence of CSV records, each   *)
(* a sequence of cells (text).                                             *)
(***************************************************************************)
EXTENDS Integers, Sequences, FiniteSets, TLC

\* ----------------------------------------------------------------- bounds
MaxRuns == 2

\* ------------------------------------------------------- program constants
utc_date_header == <<"Date (UTC)">>

release_columns ==
    << <<"id">>, <<"tag_name">>, <<"name">>, <<"draft">>, <<"prerelease">>,
       <<"created_at">>, <<"published_at">> >>

installs_header ==
    << utc_date_header, <<"generated_date">>, <<"versions.stable">>,
       <<"install.30d">>, <<"install_on_request.30d">> >>

\* ------------------------------------------------------ sequences and text
Range(s) == {s[i] : i \in DOMAIN s}

\* s[1:] of Python: the empty list stays empty
Rest(s) == SubSeq(s, 2, Len(s))

RECURSIVE SelectNotIn(_, _)
\* [n for n in s if n not in S]
SelectNotIn(s, S) ==
    IF s = <<>> THEN <<>>
    ELSE IF Head(s) \in S THEN SelectNotIn(Tail(s), S)
         ELSE <<Head(s)>> \o SelectNotIn(Tail(s), S)

Digit(d) == <<"0", "1", "2", "3", "4", "5", "6", "7", "8", "9">>[d + 1]

Ord(c) == CHOOSE d \in 0..9 : Digit(d) = c

RECURSIVE DigitsOf(_)
\* str(n) of a non-negative int
DigitsOf(n) ==
    IF n < 10 THEN <<Digit(n)>>
    ELSE DigitsOf(n \div 10) \o <<Digit(n % 10)>>

RECURSIVE StrLess(_, _)
\* s < t of two Python str: lexicographic by character
StrLess(s, t) ==
    IF s = <<>> THEN t # <<>>
    ELSE IF t = <<>> THEN FALSE
    ELSE IF s[1] = t[1] THEN StrLess(Tail(s), Tail(t))
    ELSE Ord(s[1]) < Ord(t[1])

\* ------------------------------------------------------------ Python values
PyStr(s) == [type |-> "str", s |-> s, n |-> 0]
PyInt(n) == [type |-> "int", s |-> <<>>, n |-> n]
PyBool(b) == [type |-> "bool", s |-> <<>>, n |-> IF b THEN 1 ELSE 0]
PyNone == [type |-> "NoneType", s |-> <<>>, n |-> 0]

\* the text csv.writer puts in a cell: None is the empty string, a str is
\* itself, anything else goes through str()
CsvField(v) ==
    CASE v.type = "str" -> v.s
      [] v.type = "int" -> DigitsOf(v.n)
      [] v.type = "bool" -> IF v.n = 1 THEN <<"True">> ELSE <<"False">>
      [] OTHER -> <<>>

NoFile == [exists |-> FALSE, lines |-> <<>>]
File(ls) == [exists |-> TRUE, lines |-> ls]

\* ------------------------------------------------------------ csv module
\* A dict row is [d, rest]: d maps each key to a Python value, rest says
\* whether the row also holds the key None (DictReader's restkey).

\* csv.DictReader.__next__: dict(zip(fieldnames, row)); surplus cells go
\* under the key None, missing cells are None
ReadRow(fieldnames, line) ==
    [d |-> [key \in Range(fieldnames) |->
              LET i == CHOOSE j \in DOMAIN fieldnames :
                          /\ fieldnames[j] = key
                          /\ \A h \in DOMAIN fieldnames : fieldnames[h] = key => h <= j
              IN IF i <= Len(line) THEN PyStr(line[i]) ELSE PyNone],
     rest |-> Len(line) > Len(fieldnames)]

RECURSIVE ReadRows(_, _)
\* [row for row in reader]: the records after the header, empty records skipped
ReadRows(fieldnames, lines) ==
    IF lines = <<>> THEN <<>>
    ELSE IF Head(lines) = <<>> THEN ReadRows(fieldnames, Tail(lines))
    ELSE <<ReadRow(fieldnames, Head(lines))>> \o ReadRows(fieldnames, Tail(lines))

\* csv.DictWriter._dict_to_list with extrasaction="raise": a key that is not
\* a fieldname raises ValueError
DictRaises(fieldnames, row) ==
    row.rest \/ (DOMAIN row.d) \ Range(fieldnames) # {}

\* ... otherwise the cells are row.get(key, "") in fieldname order
DictToList(fieldnames, row) ==
    [i \in 1..Len(fieldnames) |->
        IF fieldnames[i] \in DOMAIN row.d THEN CsvField(row.d[fieldnames[i]])
        ELSE <<>>]

RECURSIVE WriteRows(_, _)
\* csv.DictWriter.writerows: the records written until a row raises (the
\* rows before it have reached the file), and whether one raised
WriteRows(fieldnames, rows) ==
    IF rows = <<>> THEN [lines |-> <<>>, raised |-> FALSE]
    ELSE IF DictRaises(fieldnames, Head(rows)) THEN [lines |-> <<>>, raised |-> TRUE]
    ELSE LET w == WriteRows(fieldnames, Tail(rows))
         IN [lines |-> <<DictToList(fieldnames, Head(rows))>> \o w.lines,
             raised |-> w.raised]

\* ------------------------------------------------------------------ time
\* An ISO 8601 timestamp of the API is [day, hour, offset]: day of January
\* 2024, hour of day, UTC offset in hours (minutes and seconds are zero).
TwoDigits(n) == IF n < 10 THEN <<"0">> \o DigitsOf(n) ELSE DigitsOf(n)

\* strftime("%Y-%m-%d %H:%M:%S") of a whole hour counted from 2024-01-01 00:00 UTC
Strftime(hours) ==
    <<"2024-01-">> \o TwoDigits(hours \div 24 + 1) \o <<" ">>
        \o TwoDigits(hours % 24) \o <<":00:00">>

\* UtcString keeping the wall time and dropping the offset
UtcStringNaive(t) == Strftime((t.day - 1) * 24 + t.hour)

\* datetime.fromisoformat(s).astimezone(timezone.utc).strftime(...)
UtcString(t) == Strftime((t.day - 1) * 24 + t.hour - t.offset)

\* ------------------------------------------------- what the APIs can return
\* Two releases, newest first as the API lists them.  Release 9 is the one
\* whose assets change upstream; release 10 is renamed upstream and has one
\* asset or none.
Ids == {9, 10}
ReleaseNames == {<<"n1">>, <<"n2">>}

TagOf(id) == <<"v">> \o DigitsOf(id)
Tags == {TagOf(id) : id \in Ids}

\* created_at and published_at of a release never change upstream
CreatedAt(id) == [day |-> 2, hour |-> id, offset |-> -5]
PublishedAt(id) == [day |-> 2, hour |-> id + 10, offset |-> -5]

\* an asset of the JSON; NoCount is an asset object without the key
\* "download_count"
Asset(name, count) == [name |-> <<name>>, has_count |-> TRUE, download_count |-> count]
NoCount(name) == [name |-> <<name>>, has_count |-> FALSE, download_count |-> 0]

\* the asset lists a release may be observed with (names unique within one)
AssetListsOf(id) ==
    IF id = 9
    THEN { <<>>,
           <<Asset("a", 1)>>,
           <<Asset("b", 1)>>,
           <<Asset("a", 1), Asset("b", 0)>>,
           <<Asset("b", 0), Asset("a", 1)>>,
           <<Asset("c", 1), Asset("b", 0)>>,
           <<NoCount("a")>> }
    ELSE { <<>>, <<Asset("a", 1)>> }

NamesOf(id) == IF id = 9 THEN {<<"n1">>} ELSE ReleaseNames

ReleasesOf(id) ==
    {[id |-> id, tag_name |-> TagOf(id), name |-> n, draft |-> FALSE,
      prerelease |-> (id = 10), created_at |-> CreatedAt(id),
      published_at |-> PublishedAt(id), assets |-> al] :
        n \in NamesOf(id), al \in AssetListsOf(id)}

\* the decoded response: any part of the release list, newest first
Snapshots ==
    {<<>>} \cup {<<r>> : r \in ReleasesOf(9) \cup ReleasesOf(10)}
           \cup {<<p[1], p[2]>> : p \in ReleasesOf(10) \X ReleasesOf(9)}

\* formula_info of the Homebrew API, reduced to the four values read from it
FormulaInfos ==
    {[generated_date |-> <<"2024-01-01">>, version |-> <<"9.1">>,
      num_installs |-> 30, num_installs_on_request |-> 29]}

\* ------------------------------------------------------------------ state
VARIABLES
    downloads,        \* tag -> file github_release/downloads/<tag>.csv
    info,             \* tag -> file github_release/info/<tag>.json
    releases_csv,     \* file github_release/releases.csv
    installs_csv,     \* file homebrew/installs.csv
    pc,               \* "idle", "releases", "table", "homebrew"
    releases,         \* the decoded snapshot of the running process
    k,                \* position of the for loop in releases
    new_release_rows, \* the list built by the loop
    now_time,         \* the module-level now_time of the running process
    clock,            \* wall clock, in hours since 2024-01-01 00:00 UTC
    runs,             \* processes started so far
    exit_code,        \* exit status of the last process that ended
    stdout,           \* diagnostics the last process printed to stdout
    stderr            \* diagnostics the last process printed to stderr

files == <<downloads, info, releases_csv, installs_csv>>
vars == <<downloads, info, releases_csv, installs_csv, pc, releases, k,
          new_release_rows, now_time, clock, runs, exit_code, stdout, stderr>>

NoJson == [exists |-> FALSE, data |-> <<>>]
Json(release) == [exists |-> TRUE, data |-> <<release>>]

\* A downloads file may be there but empty before the first run: open(path,
\* "w") truncates before anything is written, so an interrupted write leaves
\* an empty file.
Init ==
    /\ downloads \in [Tags -> {NoFile, File(<<>>)}]
    /\ info = [t \in Tags |-> NoJson]
    /\ releases_csv = NoFile
    /\ installs_csv = NoFile
    /\ pc = "idle"
    /\ releases = <<>>
    /\ k = 1
    /\ new_release_rows = <<>>
    /\ now_time = <<>>
    /\ clock = 0
    /\ runs = 0
    /\ exit_code = 0
    /\ stdout = {}
    /\ stderr = {}

\* --------------------------------------------------- per-release CSV upsert
\* release_row: the metadata columns, the two dates rewritten in UTC
ReleaseRow(release) ==
    [d |-> [c \in Range(release_columns) |->
              CASE c = <<"id">> -> PyInt(release.id)
                [] c = <<"tag_name">> -> PyStr(release.tag_name)
                [] c = <<"name">> -> PyStr(release.name)
                [] c = <<"draft">> -> PyBool(release.draft)
                [] c = <<"prerelease">> -> PyBool(release.prerelease)
                [] c = <<"created_at">> -> PyStr(UtcString(release.created_at))
                [] OTHER -> PyStr(UtcString(release.published_at))],
     rest |-> FALSE]

\* SnapshotAssetNames losing the order of the snapshot
SnapshotAssetNamesReversed(release) ==
    [i \in DOMAIN release.assets |-> release.assets[Len(release.assets) + 1 - i].name]

\* asset_names = [asset["name"] for asset in release["assets"]]
SnapshotAssetNames(release) ==
    [i \in DOMAIN release.assets |-> release.assets[i].name]

SkipReleaseNever(asset_names) == FALSE

\* if len(asset_names) == 0: continue
SkipRelease(asset_names) == Len(asset_names) = 0

\* new_asset_names
NewAssetNames(asset_names, old_asset_names) ==
    SelectNotIn(asset_names, Range(old_asset_names))

MergedAssetNamesSnapshotOnly(asset_names, old_asset_names) == asset_names

\* asset_names of an existing file: the stored names, then the new ones
MergedAssetNames(asset_names, old_asset_names) ==
    old_asset_names \o SelectNotIn(asset_names, Range(old_asset_names))

\* existing_rows: read back only when there are new assets
ExistingRows(new_asset_names, lines) ==
    IF Len(new_asset_names) > 0 THEN ReadRows(lines[1], Rest(lines)) ELSE <<>>

\* file_mode
FileMode(existing_rows) == IF Len(existing_rows) > 0 THEN "w" ELSE "a"

\* asset["download_count"] raises KeyError for an asset without that key
RowRaises(release) == \E i \in DOMAIN release.assets : ~release.assets[i].has_count

\* ObservationRow taking the time at the moment of the write
ObservationRowRereadsClock(release, now) ==
    [d |-> [key \in Range(SnapshotAssetNames(release)) \cup {utc_date_header} |->
              IF key = utc_date_header THEN PyStr(Strftime(clock))
              ELSE LET i == CHOOSE j \in DOMAIN release.assets :
                               /\ release.assets[j].name = key
                               /\ \A h \in DOMAIN release.assets :
                                     release.assets[h].name = key => h <= j
                   IN PyInt(release.assets[i].download_count)],
     rest |-> FALSE]

\* row: the download count of every asset of the snapshot (for a name that
\* occurs twice the later asset wins), and now_time under the date header
ObservationRow(release, now) ==
    [d |-> [key \in Range(SnapshotAssetNames(release)) \cup {utc_date_header} |->
              IF key = utc_date_header THEN PyStr(now)
              ELSE LET i == CHOOSE j \in DOMAIN release.assets :
                               /\ release.assets[j].name = key
                               /\ \A h \in DOMAIN release.assets :
                                     release.assets[h].name = key => h <= j
                   IN PyInt(release.assets[i].download_count)],
     rest |-> FALSE]

\* WriteObservation with writer.writeheader() taken out of its if
WriteObservationAlwaysHeader(lines, asset_names, existing_rows, release, now) ==
    LET fieldnames == <<utc_date_header>> \o asset_names
        opened == IF FileMode(existing_rows) = "w" THEN <<>> ELSE lines
        w == WriteRows(fieldnames, existing_rows)
        rewritten == opened \o <<fieldnames>> \o w.lines
    IN IF Len(existing_rows) > 0 /\ w.raised
       THEN [status |-> "ValueError", lines |-> rewritten]
       ELSE IF RowRaises(release)
       THEN [status |-> "KeyError", lines |-> rewritten]
       ELSE [status |-> "ok",
             lines |-> rewritten \o <<DictToList(fieldnames, ObservationRow(release, now))>>]

\* the second open() of the loop body and what is written under it: lines
\* is the content of the file before that open()
WriteObservation(lines, asset_names, existing_rows, release, now) ==
    LET fieldnames == <<utc_date_header>> \o asset_names
        opened == IF FileMode(existing_rows) = "w" THEN <<>> ELSE lines
        w == WriteRows(fieldnames, existing_rows)
        rewritten == IF Len(existing_rows) > 0
                     THEN opened \o <<fieldnames>> \o w.lines
                     ELSE opened
    IN IF Len(existing_rows) > 0 /\ w.raised
       THEN [status |-> "ValueError", lines |-> rewritten]
       ELSE IF RowRaises(release)
       THEN [status |-> "KeyError", lines |-> rewritten]
       ELSE [status |-> "ok",
             lines |-> rewritten \o <<DictToList(fieldnames, ObservationRow(release, now))>>]

\* the loop body from the first open() on, for a release with assets: the
\* status it ends with, the records the file then holds, and whether the
\* conversion message was printed
Upsert(release, f, now) ==
    LET asset_names == SnapshotAssetNames(release)
    IN IF ~f.exists
       THEN LET u == WriteObservation(<< <<utc_date_header>> \o asset_names >>,
                                      asset_names, <<>>, release, now)
            IN [status |-> u.status, lines |-> u.lines, converting |-> FALSE]
       ELSE IF f.lines = <<>>
       THEN [status |-> "exit", lines |-> f.lines, converting |-> FALSE]
       ELSE LET old_asset_names == Rest(f.lines[1])
                new_asset_names == NewAssetNames(asset_names, old_asset_names)
                u == WriteObservation(f.lines,
                                      MergedAssetNames(asset_names, old_asset_names),
                                      ExistingRows(new_asset_names, f.lines),
                                      release, now)
            IN [status |-> u.status, lines |-> u.lines,
                converting |-> Len(new_asset_names) > 0]

\* ------------------------------------------------- releases metadata table
ID == <<"id">>

RECURSIVE IntOf(_)
\* int(s) of a str of digits
IntOf(s) ==
    IF s = <<>> THEN 0
    ELSE IntOf(SubSeq(s, 1, Len(s) - 1)) * 10 + Ord(s[Len(s)])

\* OldReleaseRows with the stored ids turned back into int on reading
OldReleaseRowsIntIds(f) ==
    IF f.lines = <<>> THEN <<>>
    ELSE LET rows == ReadRows(f.lines[1], Rest(f.lines))
         IN [i \in DOMAIN rows |-> [rows[i] EXCEPT !.d[ID] = PyInt(IntOf(@.s))]]

\* old_release_rows
OldReleaseRows(f) ==
    IF f.lines = <<>> THEN <<>> ELSE ReadRows(f.lines[1], Rest(f.lines))

RECURSIVE SelectNewRows(_, _)
\* [r for r in new_release_rows if str(r['id']) not in old_release_ids]
SelectNewRows(rows, old_release_ids) ==
    IF rows = <<>> THEN <<>>
    ELSE IF PyStr(CsvField(Head(rows).d[ID])) \in old_release_ids
         THEN SelectNewRows(Tail(rows), old_release_ids)
         ELSE <<Head(rows)>> \o SelectNewRows(Tail(rows), old_release_ids)

\* MergeReleaseRows always taking the else branch
MergeReleaseRowsFresh(f, rows) == rows

\* release_rows before the sort
MergeReleaseRows(f, rows) ==
    IF f.exists
    THEN LET old_release_rows == OldReleaseRows(f)
         IN old_release_rows
              \o SelectNewRows(rows, {old_release_rows[i].d[ID] : i \in DOMAIN old_release_rows})
    ELSE rows

\* a < b of two sort keys of one type: int by value, str by character
KeyLess(a, b) == IF a.type = "int" THEN a.n < b.n ELSE StrLess(a.s, b.s)

\* sorted() raises TypeError when it has to compare a str with an int
SortRaises(rows) ==
    \E i, j \in DOMAIN rows : rows[i].d[ID].type # rows[j].d[ID].type

RECURSIVE Insert(_, _)
Insert(sorted, x) ==
    IF sorted = <<>> THEN <<x>>
    ELSE IF KeyLess(x.d[ID], Head(sorted).d[ID]) THEN <<x>> \o sorted
    ELSE <<Head(sorted)>> \o Insert(Tail(sorted), x)

RECURSIVE Sorted(_)
\* sorted(release_rows, key = lambda o: o['id']): stable
Sorted(rows) ==
    IF rows = <<>> THEN <<>>
    ELSE Insert(Sorted(SubSeq(rows, 1, Len(rows) - 1)), rows[Len(rows)])

\* ---------------------------------------------------------------- actions
\* EndProcess with a failure of the release routine caught, so that the
\* Homebrew routine runs all the same
EndProcessThenHomebrew(code) ==
    IF code # 0 /\ pc = "releases"
    THEN /\ pc' = "homebrew"
         /\ UNCHANGED <<releases, k, new_release_rows, now_time, exit_code>>
    ELSE /\ pc' = "idle"
         /\ releases' = <<>>
         /\ k' = 1
         /\ new_release_rows' = <<>>
         /\ now_time' = <<>>
         /\ exit_code' = code

\* the process ends: its memory is gone, the files and the streams stay
EndProcess(code) ==
    /\ pc' = "idle"
    /\ releases' = <<>>
    /\ k' = 1
    /\ new_release_rows' = <<>>
    /\ now_time' = <<>>
    /\ exit_code' = code

\* The scheduler starts the program: now_time is taken at import, then
\* query_github_releases fetches and decodes the release list.
StartRun ==
    /\ pc = "idle"
    /\ runs < MaxRuns
    /\ \E snapshot \in Snapshots : releases' = snapshot
    /\ pc' = "releases"
    /\ k' = 1
    /\ new_release_rows' = <<>>
    /\ runs' = runs + 1
    /\ clock' = 24 * (runs + 1)
    /\ now_time' = Strftime(clock')
    /\ stdout' = {}
    /\ stderr' = {}
    /\ UNCHANGED <<files, exit_code>>

\* ... or urlopen / json.loads raises: traceback, exit status 1
FetchReleasesFails ==
    /\ pc = "idle"
    /\ runs < MaxRuns
    /\ runs' = runs + 1
    /\ clock' = 24 * (runs + 1)
    /\ stdout' = {}
    /\ stderr' = {"Traceback"}
    /\ EndProcess(1)
    /\ UNCHANGED files

\* ProcessRelease with the JSON copy written before the CSV is looked at
ProcessReleaseJsonFirst ==
    /\ pc = "releases"
    /\ k <= Len(releases)
    /\ clock' = clock + 1
    /\ LET release == releases[k]
           tag == release.tag_name
           u == Upsert(release, downloads[tag], now_time)
       IN IF SkipRelease(SnapshotAssetNames(release))
          THEN /\ new_release_rows' = Append(new_release_rows, ReleaseRow(release))
               /\ k' = k + 1
               /\ UNCHANGED <<files, pc, releases, now_time, exit_code, stdout, stderr>>
          ELSE IF u.status = "ok"
          THEN /\ new_release_rows' = Append(new_release_rows, ReleaseRow(release))
               /\ downloads' = [downloads EXCEPT ![tag] = File(u.lines)]
               /\ info' = [info EXCEPT ![tag] = Json(release)]
               /\ k' = k + 1
               /\ stdout' = IF u.converting THEN stdout \cup {"Converting CSV file"}
                            ELSE stdout
               /\ UNCHANGED <<releases_csv, installs_csv, pc, releases, now_time,
                              exit_code, stderr>>
          ELSE IF u.status = "exit"
          THEN /\ stdout' = stdout \cup {"Found csv file with no headers"}
               /\ info' = [info EXCEPT ![tag] = Json(release)]
               /\ EndProcess(255)
               /\ UNCHANGED <<downloads, releases_csv, installs_csv, stderr>>
          ELSE /\ downloads' = [downloads EXCEPT ![tag] = File(u.lines)]
               /\ info' = [info EXCEPT ![tag] = Json(release)]
               /\ stdout' = IF u.converting THEN stdout \cup {"Converting CSV file"}
                            ELSE stdout
               /\ stderr' = stderr \cup {"Traceback"}
               /\ EndProcess(1)
               /\ UNCHANGED <<releases_csv, installs_csv>>
    /\ UNCHANGED runs

\* one pass of "for release in releases"
ProcessRelease ==
    /\ pc = "releases"
    /\ k <= Len(releases)
    /\ clock' = clock + 1
    /\ LET release == releases[k]
           tag == release.tag_name
           u == Upsert(release, downloads[tag], now_time)
       IN IF SkipRelease(SnapshotAssetNames(release))
          THEN /\ new_release_rows' = Append(new_release_rows, ReleaseRow(release))
               /\ k' = k + 1
               /\ UNCHANGED <<files, pc, releases, now_time, exit_code, stdout, stderr>>
          ELSE IF u.status = "ok"
          THEN /\ new_release_rows' = Append(new_release_rows, ReleaseRow(release))
               /\ downloads' = [downloads EXCEPT ![tag] = File(u.lines)]
               /\ info' = [info EXCEPT ![tag] = Json(release)]
               /\ k' = k + 1
               /\ stdout' = IF u.converting THEN stdout \cup {"Converting CSV file"}
                            ELSE stdout
               /\ UNCHANGED <<releases_csv, installs_csv, pc, releases, now_time,
                              exit_code, stderr>>
          ELSE IF u.status = "exit"
          THEN \* print(...) goes to stdout, exit(-1) is exit status 255
               /\ stdout' = stdout \cup {"Found csv file with no headers"}
               /\ EndProcess(255)
               /\ UNCHANGED <<files, stderr>>
          ELSE \* uncaught KeyError or ValueError: traceback, exit status 1
               /\ downloads' = [downloads EXCEPT ![tag] = File(u.lines)]
               /\ stdout' = IF u.converting THEN stdout \cup {"Converting CSV file"}
                            ELSE stdout
               /\ stderr' = stderr \cup {"Traceback"}
               /\ EndProcess(1)
               /\ UNCHANGED <<info, releases_csv, installs_csv>>
    /\ UNCHANGED runs

\* after the loop: merge, sort and rewrite github_release/releases.csv
WriteReleasesTable ==
    /\ pc = "releases"
    /\ k > Len(releases)
    /\ clock' = clock + 1
    /\ LET release_rows == MergeReleaseRows(releases_csv, new_release_rows)
           w == WriteRows(release_columns, Sorted(release_rows))
       IN IF SortRaises(release_rows)
          THEN \* TypeError before the file is opened
               /\ stderr' = stderr \cup {"Traceback"}
               /\ EndProcess(1)
               /\ UNCHANGED releases_csv
          ELSE IF w.raised
          THEN /\ releases_csv' = File(<<release_columns>> \o w.lines)
               /\ stderr' = stderr \cup {"Traceback"}
               /\ EndProcess(1)
          ELSE /\ releases_csv' = File(<<release_columns>> \o w.lines)
               /\ pc' = "homebrew"
               /\ UNCHANGED <<releases, k, new_release_rows, now_time, exit_code, stderr>>
    /\ UNCHANGED <<downloads, info, installs_csv, runs, stdout>>

\* QueryHomebrew writing the header without looking whether the file exists
QueryHomebrewAlwaysHeader ==
    /\ pc = "homebrew"
    /\ clock' = clock + 1
    /\ \E formula_info \in FormulaInfos :
          LET created == installs_csv.lines \o <<installs_header>>
              row == << now_time, formula_info.generated_date, formula_info.version,
                        CsvField(PyInt(formula_info.num_installs)),
                        CsvField(PyInt(formula_info.num_installs_on_request)) >>
          IN installs_csv' = File(Append(created, row))
    /\ EndProcess(0)
    /\ UNCHANGED <<downloads, info, releases_csv, runs, stdout, stderr>>

\* query_homebrew_installs, then the process exits with status 0
QueryHomebrew ==
    /\ pc = "homebrew"
    /\ clock' = clock + 1
    /\ \E formula_info \in FormulaInfos :
          LET created == IF installs_csv.exists THEN installs_csv.lines
                         ELSE <<installs_header>>
              row == << now_time, formula_info.generated_date, formula_info.version,
                        CsvField(PyInt(formula_info.num_installs)),
                        CsvField(PyInt(formula_info.num_installs_on_request)) >>
          IN installs_csv' = File(Append(created, row))
    /\ EndProcess(0)
    /\ UNCHANGED <<downloads, info, releases_csv, runs, stdout, stderr>>

\* ... or its urlopen / json.loads raises
FetchFormulaFails ==
    /\ pc = "homebrew"
    /\ clock' = clock + 1
    /\ stderr' = stderr \cup {"Traceback"}
    /\ EndProcess(1)
    /\ UNCHANGED <<files, runs, stdout>>

Next ==
    \/ StartRun
    \/ FetchReleasesFails
    \/ ProcessRelease
    \/ WriteReleasesTable
    \/ QueryHomebrew
    \/ FetchFormulaFails

Spec == Init /\ [][Next]_vars

\* ---------------------------------------------- one run, any two timestamps
\* the timestamps a release may carry: any hour of three days at an offset
\* west of, at, or east of UTC, not before 2024-01-01 00:00 UTC
TimeInputs ==
    {t \in [day : 1..3, hour : {0, 10, 23}, offset : {-5, 0, 5}] :
        (t.day - 1) * 24 + t.hour - t.offset >= 0}

\* the first process has fetched a snapshot of one release whose created_at
\* and published_at are any two of these timestamps
InitTime ==
    /\ downloads = [t \in Tags |-> NoFile]
    /\ info = [t \in Tags |-> NoJson]
    /\ releases_csv = NoFile
    /\ installs_csv = NoFile
    /\ pc = "releases"
    /\ \E c \in TimeInputs, p \in TimeInputs :
          releases = <<[id |-> 9, tag_name |-> TagOf(9), name |-> <<"n1">>,
                        draft |-> FALSE, prerelease |-> FALSE, created_at |-> c,
                        published_at |-> p, assets |-> <<Asset("a", 1)>>]>>
    /\ k = 1
    /\ new_release_rows = <<>>
    /\ now_time = Strftime(24)
    /\ clock = 24
    /\ runs = 1
    /\ exit_code = 0
    /\ stdout = {}
    /\ stderr = {}

NextTime ==
    \/ ProcessRelease
    \/ WriteReleasesTable
    \/ QueryHomebrew
    \/ FetchFormulaFails

SpecTime == InitTime /\ [][NextTime]_vars

TypeOK ==
    /\ pc \in {"idle", "releases", "homebrew"}
    /\ runs \in 0..MaxRuns
    /\ exit_code \in {0, 1, 255}
    /\ \A t \in Tags : downloads[t].exists \in BOOLEAN

\* =================================================================== claims
\* the release the loop is about to process
AtRelease == pc = "releases" /\ k <= Len(releases)

\* a downloads file with a header record
HasHeader(f) == f.exists /\ f.lines # <<>>

\* every asset of the release carries a download count, as the API documents
WellFormed(release) == \A i \in DOMAIN release.assets : release.assets[i].has_count

\* the asset names of the release that the header of f does not hold
Unrecorded(release, f) == SelectNotIn(SnapshotAssetNames(release), Range(Rest(f.lines[1])))

Blanks(n) == [i \in 1..n |-> <<>>]

IsPrefix(s, t) == Len(s) <= Len(t) /\ SubSeq(t, 1, Len(s)) = s

\* C1 (as claimed): when the file of a release has a header and the snapshot
\* brings asset names the header does not hold, the pass over that release
\* leaves header = stored header + new names in snapshot order, every stored
\* row in place with blanks under the new columns, and one new row after them.
C1_RewriteOnNewAssets ==
    [][ \A t \in Tags :
          ( /\ AtRelease
            /\ releases[k].tag_name = t
            /\ WellFormed(releases[k])
            /\ HasHeader(downloads[t])
            /\ Unrecorded(releases[k], downloads[t]) # <<>> )
          => LET old == downloads[t].lines
                 new == downloads'[t].lines
                 added == Unrecorded(releases[k], downloads[t])
             IN /\ Len(new) = Len(old) + 1
                /\ new[1] = old[1] \o added
                /\ \A i \in 2..Len(old) : new[i] = old[i] \o Blanks(Len(added))
                /\ new[Len(new)][1] = now_time
      ]_vars

\* C2: when the file of a release with assets has a header that holds every
\* asset name of the (well-formed) snapshot, the pass over that release
\* appends one record and leaves the header and every stored record as they
\* were.
C2_AppendOnly ==
    [][ \A t \in Tags :
          ( /\ AtRelease
            /\ releases[k].tag_name = t
            /\ releases[k].assets # <<>>
            /\ WellFormed(releases[k])
            /\ HasHeader(downloads[t])
            /\ Unrecorded(releases[k], downloads[t]) = <<>> )
          => /\ downloads'[t].exists
             /\ Len(downloads'[t].lines) = Len(downloads[t].lines) + 1
             /\ IsPrefix(downloads[t].lines, downloads'[t].lines)
             /\ downloads'[t].lines[Len(downloads'[t].lines)][1] = now_time
      ]_vars

\* the second row of a file whose header never changed has just been appended
C2_Witness ==
    /\ pc = "releases"
    /\ k > 1
    /\ LET t == releases[k - 1].tag_name
       IN /\ downloads[t].exists
          /\ Len(downloads[t].lines) = 3
          /\ downloads[t].lines[1] = <<utc_date_header, <<"a">> >>
          /\ Len(downloads[t].lines[2]) = 2
          /\ downloads[t].lines[3] = <<now_time, <<"1">> >>

\* the cell a pass writes under a header column: the count of the asset of
\* that name in the snapshot, digits spelled out (so 0 is "0"), blank when
\* the snapshot has no asset of that name
ExpectedCell(release, name) ==
    IF \E i \in DOMAIN release.assets : release.assets[i].name = name
    THEN LET i == CHOOSE j \in DOMAIN release.assets : release.assets[j].name = name
         IN DigitsOf(release.assets[i].download_count)
    ELSE <<>>

\* C3: no step takes a name out of the header of a downloads file or moves
\* it (the stored header is a prefix of the header after the step), and the
\* row a pass writes holds, under every header column, the count of that
\* asset in the snapshot - 0 written as "0" - or a blank when the snapshot
\* has no such asset.
C3_HeaderGrowsBlankVsZero ==
    [][ \A t \in Tags :
          /\ HasHeader(downloads[t])
               => /\ HasHeader(downloads'[t])
                  /\ IsPrefix(downloads[t].lines[1], downloads'[t].lines[1])
          /\ ( /\ AtRelease
               /\ releases[k].tag_name = t
               /\ releases[k].assets # <<>>
               /\ k' = k + 1 )
               => LET lines == downloads'[t].lines
                      row == lines[Len(lines)]
                  IN /\ row[1] = now_time
                     /\ \A j \in 2..Len(lines[1]) :
                           /\ j <= Len(row)
                           /\ row[j] = ExpectedCell(releases[k], lines[1][j])
      ]_vars

\* an asset of the header is gone from the snapshot and another one is
\* there with count 0: the row just written has a blank and a "0"
C3_Witness ==
    /\ pc = "releases"
    /\ k > 1
    /\ LET lines == downloads[releases[k - 1].tag_name].lines
       IN /\ Len(lines) >= 3
          /\ lines[1] = <<utc_date_header, <<"a">>, <<"c">>, <<"b">> >>
          /\ lines[Len(lines)] = <<now_time, <<>>, <<"1">>, <<"0">> >>

\* the data records of the metadata table and the identifiers they hold
StoredRows(f) == {f.lines[i] : i \in 2..Len(f.lines)}
StoredIds(f) == {f.lines[i][1] : i \in 2..Len(f.lines)}

\* C4: github_release/releases.csv never holds two records with the same
\* identifier.
C4_UniqueIds ==
    \A i, j \in 2..Len(releases_csv.lines) :
        i # j => releases_csv.lines[i][1] # releases_csv.lines[j][1]

\* the table has just been rewritten by a run whose snapshot lists a release
\* that an earlier run stored (under the name it had then)
C4_Witness ==
    /\ pc = "homebrew"
    /\ runs >= 2
    /\ \E i \in DOMAIN releases : \E j \in 2..Len(releases_csv.lines) :
          /\ releases_csv.lines[j][1] = DigitsOf(releases[i].id)
          /\ releases_csv.lines[j][3] # releases[i].name

\* C5 (as claimed): the records of github_release/releases.csv are in
\* ascending order of the numeric value of their identifier.
C5_SortedByNumericId ==
    \A i, j \in 2..Len(releases_csv.lines) :
        i < j => IntOf(releases_csv.lines[i][1]) < IntOf(releases_csv.lines[j][1])

\* C6: no step removes a record of the metadata table or changes one of its
\* cells: the table stays, never gets shorter, and every stored record is
\* still one of its records.
C6_RowsKept ==
    [][ releases_csv.exists
          => /\ releases_csv'.exists
             /\ Len(releases_csv'.lines) >= Len(releases_csv.lines)
             /\ StoredRows(releases_csv) \subseteq StoredRows(releases_csv')
      ]_vars

\* the table has just been rewritten by a run whose snapshot no longer lists
\* one stored release and reports another one under a new name
C6_Witness ==
    /\ pc = "homebrew"
    /\ runs >= 2
    /\ \E j \in 2..Len(releases_csv.lines) :
          \A i \in DOMAIN releases : releases_csv.lines[j][1] # DigitsOf(releases[i].id)
    /\ \E i \in DOMAIN releases : \E j \in 2..Len(releases_csv.lines) :
          /\ releases_csv.lines[j][1] = DigitsOf(releases[i].id)
          /\ releases_csv.lines[j][3] # releases[i].name

\* the identifiers of the snapshot, as the table spells them
SnapshotIds == {DigitsOf(releases[i].id) : i \in DOMAIN releases}

\* C7 (as claimed): when the table holds at least one record and the
\* snapshot lists releases it does not hold, the table step goes on to the
\* Homebrew routine and leaves the stored records plus one record for each
\* newly observed identifier.
C7_MergeAddsNewReleases ==
    [][ ( /\ pc = "releases"
          /\ k > Len(releases)
          /\ releases_csv.exists
          /\ Len(releases_csv.lines) >= 2
          /\ SnapshotIds \ StoredIds(releases_csv) # {} )
        => /\ pc' = "homebrew"
           /\ StoredRows(releases_csv) \subseteq StoredRows(releases_csv')
           /\ StoredIds(releases_csv') = StoredIds(releases_csv) \cup SnapshotIds
           /\ Len(releases_csv'.lines)
                = Len(releases_csv.lines)
                    + Cardinality(SnapshotIds \ StoredIds(releases_csv))
      ]_vars

\* C8: the pass over a release without assets changes no downloads file,
\* ends neither the process nor the loop, and reports nothing: the loop
\* moves on to the next release.
C8_ZeroAssetsSkipped ==
    [][ (AtRelease /\ releases[k].assets = <<>>)
          => /\ downloads' = downloads
             /\ pc' = "releases"
             /\ k' = k + 1
             /\ releases' = releases
             /\ exit_code' = exit_code
             /\ stderr' = stderr
      ]_vars

\* a release without assets was passed over, no file was made for it, and
\* the release after it has got its row
C8_Witness ==
    /\ pc = "releases"
    /\ k = 3
    /\ releases[1].assets = <<>>
    /\ ~downloads[releases[1].tag_name].exists
    /\ LET lines == downloads[releases[2].tag_name].lines
       IN Len(lines) >= 2 /\ lines[Len(lines)][1] = now_time

\* C9 (as claimed): once the loop is over and the table is written, the
\* info file of every release of the snapshot holds that release as this
\* run fetched it.
C9_InfoHoldsSnapshot ==
    pc = "homebrew"
      => \A i \in DOMAIN releases : info[releases[i].tag_name] = Json(releases[i])

\* C10 (as claimed): the pass over a release with assets whose downloads
\* file exists and is empty ends the process with a non-zero exit status,
\* puts the diagnostic on the error stream and leaves the file as it was.
C10_HeaderlessIsFatal ==
    [][ \A t \in Tags :
          ( /\ AtRelease
            /\ releases[k].tag_name = t
            /\ releases[k].assets # <<>>
            /\ downloads[t].exists
            /\ downloads[t].lines = <<>> )
          => /\ pc' = "idle"
             /\ exit_code' # 0
             /\ "Found csv file with no headers" \in stderr'
             /\ downloads'[t] = downloads[t]
      ]_vars

\* the Homebrew routine of this process has run to its end
HomebrewDone == pc = "homebrew" /\ pc' = "idle" /\ exit_code' = 0

\* C11: a step that completes the Homebrew routine leaves, for a file that
\* was not there, the fixed header and one row, and for a file that was
\* there, its records as they were and one row after them; no other step
\* changes homebrew/installs.csv.  So the file is always the header followed
\* by one row per completed routine, oldest first, equal data rows included.
C11_InstallsAppendOnly ==
    [][ /\ HomebrewDone
          => /\ installs_csv'.exists
             /\ IsPrefix(IF installs_csv.exists THEN installs_csv.lines
                         ELSE <<installs_header>>,
                         installs_csv'.lines)
             /\ Len(installs_csv'.lines)
                  = (IF installs_csv.exists THEN Len(installs_csv.lines) ELSE 1) + 1
             /\ installs_csv'.lines[1] = installs_header
             /\ \A i \in 2..Len(installs_csv'.lines) :
                   installs_csv'.lines[i] # installs_header
             /\ installs_csv'.lines[Len(installs_csv'.lines)][1] = now_time
        /\ ~HomebrewDone => installs_csv' = installs_csv
      ]_vars

\* two completed runs: the header and two rows that differ in their date only
C11_Witness ==
    /\ pc = "idle"
    /\ runs = 2
    /\ Len(installs_csv.lines) = 3
    /\ installs_csv.lines[1] = installs_header
    /\ installs_csv.lines[2][1] = Strftime(24)
    /\ installs_csv.lines[3][1] = Strftime(48)
    /\ Rest(installs_csv.lines[2]) = Rest(installs_csv.lines[3])

\* C12: the pass over a (well-formed) release with assets that has no
\* downloads file creates the file with two records: the date header
\* followed by the asset names in snapshot order, and now_time followed by
\* the download count of each asset in the same order.
C12_CreateWithHeaderAndRow ==
    [][ \A t \in Tags :
          ( /\ AtRelease
            /\ releases[k].tag_name = t
            /\ releases[k].assets # <<>>
            /\ WellFormed(releases[k])
            /\ ~downloads[t].exists )
          => /\ downloads'[t].exists
             /\ downloads'[t].lines =
                  << <<utc_date_header>>
                        \o [i \in DOMAIN releases[k].assets |-> releases[k].assets[i].name],
                     <<now_time>>
                        \o [i \in DOMAIN releases[k].assets |->
                               DigitsOf(releases[k].assets[i].download_count)] >>
      ]_vars

\* the file of a release first seen with assets b (count 0) and a (count 1),
\* in that order, has just been created
C12_Witness ==
    /\ pc = "releases"
    /\ k > 1
    /\ [i \in DOMAIN releases[k - 1].assets |-> releases[k - 1].assets[i].name]
         = << <<"b">>, <<"a">> >>
    /\ downloads[releases[k - 1].tag_name].lines
         = << <<utc_date_header, <<"b">>, <<"a">> >>, <<now_time, <<"0">>, <<"1">> >> >>

\* the time at which the process of the current run was started
StartTime == Strftime(24 * runs)

LastLine(f) == f.lines[Len(f.lines)]

\* C13: while a process runs, now_time is the time of its start, whatever
\* the clock has moved on to; the observation row a pass writes and the row
\* the Homebrew routine writes both carry that value.
C13_OneTimestampPerRun ==
    [][ /\ pc' # "idle" => now_time' = Strftime(24 * runs')
        /\ \A t \in Tags :
             ( /\ AtRelease
               /\ releases[k].tag_name = t
               /\ releases[k].assets # <<>>
               /\ k' = k + 1 )
             => LastLine(downloads'[t])[1] = StartTime
        /\ HomebrewDone => LastLine(installs_csv')[1] = StartTime
      ]_vars

\* a run that wrote a row for each of two releases and the Homebrew row has
\* ended: the three rows carry the start time, the clock is hours past it
C13_Witness ==
    /\ pc = "idle"
    /\ runs >= 1
    /\ exit_code = 0
    /\ clock >= 24 * runs + 4
    /\ \A t \in Tags :
          /\ Len(downloads[t].lines) >= 2
          /\ LastLine(downloads[t])[1] = StartTime
    /\ LastLine(installs_csv)[1] = StartTime

\* the instant an API timestamp denotes, in hours since 2024-01-01 00:00 UTC
Instant(t) == (t.day - 1) * 24 + t.hour - t.offset

\* text has the form YYYY-MM-DD HH:MM:SS and nothing after it
IsUtcText(text) ==
    /\ Len(text) = 7
    /\ text[1] = "2024-01-"
    /\ IntOf(<<text[2], text[3]>>) \in 1..31
    /\ text[4] = " "
    /\ IntOf(<<text[5], text[6]>>) \in 0..23
    /\ text[7] = ":00:00"

\* the instant such a text denotes when read as UTC
UtcInstant(text) == (IntOf(<<text[2], text[3]>>) - 1) * 24 + IntOf(<<text[5], text[6]>>)

\* C14: in every metadata record built from the snapshot, and in every
\* record of the table written for a release of the snapshot, created_at and
\* published_at have the form YYYY-MM-DD HH:MM:SS without a zone and, read
\* as UTC, denote the instant of the timestamp the API gave.
C14_UtcNormalized ==
    /\ \A i \in DOMAIN new_release_rows :
          /\ IsUtcText(new_release_rows[i].d[<<"created_at">>].s)
          /\ IsUtcText(new_release_rows[i].d[<<"published_at">>].s)
          /\ UtcInstant(new_release_rows[i].d[<<"created_at">>].s)
               = Instant(releases[i].created_at)
          /\ UtcInstant(new_release_rows[i].d[<<"published_at">>].s)
               = Instant(releases[i].published_at)
    /\ \A i \in DOMAIN releases : \A j \in 2..Len(releases_csv.lines) :
          releases_csv.lines[j][1] = DigitsOf(releases[i].id)
            => /\ IsUtcText(releases_csv.lines[j][6])
               /\ IsUtcText(releases_csv.lines[j][7])
               /\ UtcInstant(releases_csv.lines[j][6]) = Instant(releases[i].created_at)
               /\ UtcInstant(releases_csv.lines[j][7]) = Instant(releases[i].published_at)

\* 2024-01-01T10:00:00-05:00 is stored as 2024-01-01 15:00:00, and
\* 2024-01-01T23:00:00-05:00 as 2024-01-02 04:00:00
C14_Witness ==
    /\ pc = "homebrew"
    /\ releases[1].created_at = [day |-> 1, hour |-> 10, offset |-> -5]
    /\ releases[1].published_at = [day |-> 1, hour |-> 23, offset |-> -5]
    /\ releases_csv.lines[2][6] = <<"2024-01-", "0", "1", " ", "1", "5", ":00:00">>
    /\ releases_csv.lines[2][7] = <<"2024-01-", "0", "2", " ", "0", "4", ":00:00">>

\* C15: the Homebrew routine starts only from the end of a release routine
\* that got through its loop and its table without reporting anything; only
\* the Homebrew routine changes homebrew/installs.csv; and a process that
\* ends inside the release routine (fetch included) ends with a non-zero
\* status and leaves homebrew/installs.csv as it was, without a row dated
\* by this run.
C15_ReleaseFailureSkipsHomebrew ==
    [][ /\ pc' = "homebrew"
          => /\ pc = "releases"
             /\ k > Len(releases)
             /\ stderr' = {}
             /\ "Found csv file with no headers" \notin stdout'
        /\ installs_csv' # installs_csv => pc = "homebrew"
        /\ (pc \in {"idle", "releases"} /\ pc' = "idle")
          => /\ exit_code' # 0
             /\ installs_csv' = installs_csv
             /\ \A i \in 2..Len(installs_csv'.lines) :
                   installs_csv'.lines[i][1] # Strftime(24 * runs')
      ]_vars

\* the first run completed, the second one ended in the release routine (on
\* a downloads file without header): the only installs row is the first run's
C15_Witness ==
    /\ pc = "idle"
    /\ runs = 2
    /\ exit_code = 255
    /\ Len(installs_csv.lines) = 2
    /\ installs_csv.lines[2][1] = Strftime(24)

\* C16 (as claimed): after a run that ended with status 0, no record of a
\* downloads file with a header has more cells than the header, so every
\* value stands under an asset name of the header.
C16_Rectangular ==
    (pc = "idle" /\ runs > 0 /\ exit_code = 0)
      => \A t \in Tags :
            HasHeader(downloads[t])
              => \A i \in 2..Len(downloads[t].lines) :
                    Len(downloads[t].lines[i]) <= Len(downloads[t].lines[1])

\* the release at position i of the snapshot has got the row and the JSON
\* copy of this run
Recorded(i) ==
    /\ Len(downloads'[releases[i].tag_name].lines) >= 2
    /\ LastLine(downloads'[releases[i].tag_name])[1] = now_time
    /\ info'[releases[i].tag_name] = [exists |-> TRUE, data |-> <<releases[i]>>]

\* the files of the release at position j are as they were before the step
Untouched(j) ==
    /\ downloads'[releases[j].tag_name] = downloads[releases[j].tag_name]
    /\ info'[releases[j].tag_name] = info[releases[j].tag_name]

\* no pass touches the files of a later release, the table or the installs
\* file, and the table is written only once the loop is over
LaterFilesWait ==
    /\ AtRelease
         => /\ \A j \in (k + 1)..Len(releases) : Untouched(j)
            /\ releases_csv' = releases_csv
            /\ installs_csv' = installs_csv
    /\ releases_csv' # releases_csv => (pc = "releases" /\ k > Len(releases))

====
